---- MODULE Spec2Model ----
(***************************************************************************)
(* Model of populate_data.py: the text splitter, the two row extractors    *)
(* and the ingestion run of main().                                        *)
(*                                                                         *)
(* Text is a sequence of one-character strings; a Python slice            *)
(* text[a:b] is Slice(text, a, b).                                         *)
(***************************************************************************)
EXTENDS Integers, Sequences, FiniteSets, TLC

VARIABLES
    \* simple_text_splitter, one call
    text, chunk_size, chunk_overlap, chunks, start, spc,
    \* get_docs_pages_df, one call
    full_str, page_table_rows, ppc,
    \* get_docstrings_df, one call
    response_json, docstrings_dict, docstrings_table_rows, derr, dpc,
    \* main: the run and the destination
    pc, docs_pages_df, docstrings_df, session, dest, counts,
    \* history of the runs: the storage operations this run has completed,
    \* the statement that raised and what it raised, the destination as the
    \* run found it, and the number of the run
    oplog, failed_at, error, before, run

splitVars == <<text, chunk_size, chunk_overlap, chunks, start, spc>>
pageVars == <<full_str, page_table_rows, ppc>>
docVars == <<response_json, docstrings_dict, docstrings_table_rows, derr, dpc>>
mainVars == <<pc, docs_pages_df, docstrings_df, session, dest, counts,
              oplog, failed_at, error, before, run>>
vars == <<splitVars, pageVars, docVars, mainVars>>

-----------------------------------------------------------------------------
(* Bounds of the splitter's inputs *)
MaxLen == 6
MaxSize == 3
MaxOverlap == 4

Min(a, b) == IF a < b THEN a ELSE b

Alphabet == {"a", "b"}

\* every text over Alphabet of at most MaxLen characters
Texts == UNION {[1..n -> Alphabet] : n \in 0..MaxLen}

\* the longest chunk list a terminating call can build is one chunk per
\* character; a call that runs past this never terminates
ChunkCap == MaxLen + 2

-----------------------------------------------------------------------------
(* simple_text_splitter *)

\* text[a:b] for 0 <= a, 0 <= b
Slice(t, a, b) == SubSeq(t, a + 1, Min(b, Len(t)))

\* the next chunk started where this one ends
SplitIter_NoOverlap(t, size, overlap, cs, st) ==
    LET end == st + size
    IN  [chunks |-> Append(cs, Slice(t, st, end)),
         start  |-> end,
         brk    |-> end >= Len(t)]

\* the loop left only when the window has passed the end of the text
SplitIter_BreakLate(t, size, overlap, cs, st) ==
    LET end == st + size
        nxt == end - overlap
    IN  [chunks |-> Append(cs, Slice(t, st, end)),
         start  |-> IF nxt < 0 THEN 0 ELSE nxt,
         brk    |-> end > Len(t)]

\* one pass through the body of the while loop
SplitIter(t, size, overlap, cs, st) ==
    LET end == st + size
        chunk == Slice(t, st, end)
        nxt == end - overlap
    IN  [chunks |-> Append(cs, chunk),
         start  |-> IF nxt < 0 THEN 0 ELSE nxt,
         brk    |-> end >= Len(t)]

RECURSIVE SplitLoop(_, _, _, _, _)
SplitLoop(t, size, overlap, cs, st) ==
    IF ~(st < Len(t)) THEN cs
    ELSE LET it == SplitIter(t, size, overlap, cs, st)
         IN  IF it.brk THEN it.chunks
             ELSE SplitLoop(t, size, overlap, it.chunks, it.start)

\* the function, for arguments on which it returns
simple_text_splitter(t, size, overlap) == SplitLoop(t, size, overlap, <<>>, 0)

\* no call of get_docs_pages_df in progress
PagesIdle ==
    /\ full_str = <<>>
    /\ page_table_rows = <<>>
    /\ ppc = "idle"

\* a destination in which nothing exists yet
NoTable == [exists |-> FALSE, tracking |-> FALSE, rows |-> <<>>]
FreshDest == [db |-> FALSE, schema |-> FALSE, pages |-> NoTable, docstrings |-> NoTable]

\* main is not running
MainIdle ==
    /\ pc = "idle"
    /\ docs_pages_df = <<>>
    /\ docstrings_df = <<>>
    /\ session = "none"
    /\ dest = FreshDest
    /\ counts = <<>>
    /\ oplog = <<>>
    /\ failed_at = "none"
    /\ error = "none"
    /\ before = FreshDest
    /\ run = 0

\* no call of get_docstrings_df in progress
DocsIdle ==
    /\ response_json = <<>>
    /\ docstrings_dict = <<>>
    /\ docstrings_table_rows = <<>>
    /\ derr = "none"
    /\ dpc = "idle"

\* the call as a process: spc is "loop" at the while test, "done" after return
SplitStart ==
    /\ text \in Texts
    /\ chunk_size \in 1..MaxSize
    /\ chunk_overlap \in 0..MaxOverlap
    /\ chunks = <<>>
    /\ start = 0
    /\ spc = "loop"

LoopBody ==
    /\ spc = "loop"
    /\ start < Len(text)
    /\ Len(chunks) < ChunkCap
    /\ LET it == SplitIter(text, chunk_size, chunk_overlap, chunks, start)
       IN  /\ chunks' = it.chunks
           /\ start' = it.start
           /\ spc' = IF it.brk THEN "done" ELSE "loop"
    /\ UNCHANGED <<text, chunk_size, chunk_overlap, pageVars, docVars, mainVars>>

LoopExit ==
    /\ spc = "loop"
    /\ ~(start < Len(text))
    /\ spc' = "done"
    /\ UNCHANGED <<text, chunk_size, chunk_overlap, chunks, start, pageVars, docVars, mainVars>>

SplitNext == LoopBody \/ LoopExit

\* the interpreter runs the loop: a pass that can be taken is taken
SplitInit == SplitStart /\ PagesIdle /\ DocsIdle /\ MainIdle

SplitSpec == SplitInit /\ [][SplitNext]_vars /\ WF_vars(SplitNext)

-----------------------------------------------------------------------------
(* C1 *)

Step == chunk_size - chunk_overlap

\* the smallest n with (n-1)*step + size >= len, 0 for the empty text
ChunkCount(len, size, step) ==
    IF len = 0 THEN 0
    ELSE CHOOSE n \in 1..(len + 1) :
            /\ (n - 1) * step + size >= len
            /\ \A m \in 1..(n - 1) : (m - 1) * step + size < len

ExpectedChunks(t, size, overlap) ==
    LET step == size - overlap
        n == ChunkCount(Len(t), size, step)
    IN  [k \in 1..n |-> SubSeq(t, (k - 1) * step + 1,
                                 Min((k - 1) * step + size, Len(t)))]

Drop(s, n) == SubSeq(s, n + 1, Len(s))

RECURSIVE JoinDedup(_, _, _)
JoinDedup(cs, overlap, k) ==
    IF k > Len(cs) THEN <<>>
    ELSE (IF k = 1 THEN cs[1] ELSE Drop(cs[k], overlap))
         \o JoinDedup(cs, overlap, k + 1)

\* C1: with chunk_size > 0 and 0 <= chunk_overlap < chunk_size the returned
\* chunks are exactly text[k*step : min(k*step + chunk_size, len)] for
\* k = 0..n-1; a non-empty text gives a chunk, all chunks but the last have
\* chunk_size characters, only the last ends at len(text), and the chunks
\* joined without their overlaps give back the text.
C1_SplitterChunks ==
    (spc = "done" /\ chunk_overlap < chunk_size) =>
        /\ chunks = ExpectedChunks(text, chunk_size, chunk_overlap)
        /\ (text # <<>> => Len(chunks) >= 1)
        /\ \A k \in 1..(Len(chunks) - 1) : Len(chunks[k]) = chunk_size
        /\ \A k \in 1..Len(chunks) :
              ((k - 1) * Step + Len(chunks[k]) = Len(text)) <=> (k = Len(chunks))
        /\ JoinDedup(chunks, chunk_overlap, 1) = text

C1_Witness ==
    /\ spc = "done"
    /\ 0 < chunk_overlap /\ chunk_overlap < chunk_size
    /\ Len(chunks) >= 3
    /\ Len(chunks[Len(chunks)]) < chunk_size

-----------------------------------------------------------------------------
(* C10 *)

Returns == chunk_overlap < chunk_size \/ Len(text) <= chunk_size

\* C10: the call returns when chunk_overlap < chunk_size or the text fits in
\* one chunk; otherwise it never returns: every pass leaves the cursor at 0
\* and appends one more chunk.
C10_Termination ==
    /\ [](Returns => <>(spc = "done"))
    /\ [](~Returns => spc # "done")
    /\ [][(chunk_overlap < chunk_size /\ chunks' # chunks) => start' > start]_vars
    /\ [][~Returns => (start' = 0 /\ spc' = "loop"
                       /\ Len(chunks') = Len(chunks) + 1)]_vars

C10_Witness ==
    /\ ~Returns
    /\ chunk_overlap > chunk_size
    /\ Len(chunks) >= 3
    /\ start = 0

-----------------------------------------------------------------------------
(* get_docs_pages_df *)

NL == "\n"
None == <<"None">>

DefaultChunkSize == 1000
DefaultChunkOverlap == 200

\* the pattern text of PAGE_SEP_RE and the literal head of URL_RE
PageSep == <<"-", "-", "-">>
SourceHead == <<"S", "o", "u", "r", "c", "e", ":", " ">>

\* ^ and $ under re.MULTILINE, at the 1-based position i of t
LineStartAt(t, i) == i = 1 \/ t[i - 1] = NL
LineEndAt(t, i) == i = Len(t) + 1 \/ t[i] = NL

MinOf(S) == CHOOSE x \in S : \A y \in S : x <= y

\* where PAGE_SEP_RE matches
SepStarts(t) ==
    {i \in 1..(Len(t) - 2) :
        /\ LineStartAt(t, i)
        /\ SubSeq(t, i, i + 2) = PageSep
        /\ LineEndAt(t, i + 3)}

\* PAGE_SEP_RE.split: the pieces between the matches, from position `from`
RECURSIVE SplitAt(_, _, _)
SplitAt(t, from, starts) ==
    IF starts = {} THEN <<SubSeq(t, from, Len(t))>>
    ELSE LET m == MinOf(starts)
         IN  <<SubSeq(t, from, m - 1)>> \o SplitAt(t, m + 3, starts \ {m})

PageSplit(t) == SplitAt(t, 1, SepStarts(t))

\* where URL_RE matches
UrlStarts(t) ==
    {i \in 1..(Len(t) - 7) :
        LineStartAt(t, i) /\ SubSeq(t, i, i + 7) = SourceHead}

\* group 1 of the match at i: (.*) runs to the end of the line
UrlGroup(t, i) ==
    LET from == i + 8
        stop == MinOf({j \in from..(Len(t) + 1) : LineEndAt(t, j)})
    IN  SubSeq(t, from, stop - 1)

\* the last match kept instead of the first
UrlPick_Last(starts) == CHOOSE x \in starts : \A y \in starts : y <= x

\* which of the matches the loop over finditer keeps
UrlPick(starts) == MinOf(starts)

\* the url of one page: the first match's group, or None
PageUrl(page_str) ==
    LET starts == UrlStarts(page_str)
    IN  IF starts = {} THEN None ELSE UrlGroup(page_str, UrlPick(starts))

\* the rows appended for one page
RowsOfPage(page_str) ==
    LET url == PageUrl(page_str)
        cs == simple_text_splitter(page_str, DefaultChunkSize, DefaultChunkOverlap)
    IN  [j \in 1..Len(cs) |-> [PAGE_URL |-> url, PAGE_CHUNK |-> cs[j]]]

RECURSIVE RowsOfPages(_, _)
RowsOfPages(page_strs, k) ==
    IF k > Len(page_strs) THEN <<>>
    ELSE RowsOfPage(page_strs[k]) \o RowsOfPages(page_strs, k + 1)

\* the rows of the returned frame, from the response text
get_docs_pages_df(t) == RowsOfPages(PageSplit(t), 1)

(* the corpus texts *)
MaxLines == 3

FillChars == <<"a", "b", "c", "d", "e", "f", "g">>
Filler(n) == [i \in 1..n |-> FillChars[(i % 7) + 1]]

RECURSIVE JoinLines(_)
JoinLines(ls) ==
    IF ls = <<>> THEN <<>>
    ELSE IF Len(ls) = 1 THEN ls[1]
    ELSE ls[1] \o <<NL>> \o JoinLines(Tail(ls))

ShortLines ==
    { PageSep,
      <<>>,
      <<"x">>,
      SourceHead \o <<"u">>,
      SourceHead \o <<"v">>,
      SourceHead,
      <<"-", "-", "-", "-">>,
      <<" ">> \o PageSep,
      <<"x">> \o SourceHead \o <<"w">> }

LongCorpora ==
    { Filler(1000), Filler(1001), Filler(2500),
      JoinLines(<<SourceHead \o <<"u">>, Filler(1800), PageSep, Filler(999)>>) }

Corpora ==
    {JoinLines(ls) : ls \in UNION {[1..n -> ShortLines] : n \in 1..MaxLines}}
        \cup LongCorpora

PagesStart ==
    /\ full_str \in Corpora
    /\ page_table_rows = <<>>
    /\ ppc = "call"

GetDocsPages ==
    /\ ppc = "call"
    /\ page_table_rows' = get_docs_pages_df(full_str)
    /\ ppc' = "ret"
    /\ UNCHANGED <<full_str, splitVars, docVars, mainVars>>

SplitIdle ==
    /\ text = <<>>
    /\ chunk_size = DefaultChunkSize
    /\ chunk_overlap = DefaultChunkOverlap
    /\ chunks = <<>>
    /\ start = 0
    /\ spc = "idle"

PagesInit == PagesStart /\ SplitIdle /\ DocsIdle /\ MainIdle
PagesSpec == PagesInit /\ [][GetDocsPages]_vars

-----------------------------------------------------------------------------
(* C7 *)

\* the lines of a text, without their newlines
RECURSIVE Lines(_)
Lines(t) ==
    LET nls == {i \in 1..Len(t) : t[i] = NL}
    IN  IF nls = {} THEN <<t>>
        ELSE LET i == MinOf(nls)
             IN  <<SubSeq(t, 1, i - 1)>> \o Lines(SubSeq(t, i + 1, Len(t)))

IsPrefix(p, s) == Len(p) <= Len(s) /\ SubSeq(s, 1, Len(p)) = p

\* the blocks between the lines that are exactly three hyphens; only the
\* hyphens are taken out, so each such line leaves an empty line at the end
\* of the block before it and at the start of the block after it
RECURSIVE BlocksOfLines(_, _)
BlocksOfLines(ls, cur) ==
    IF ls = <<>> THEN <<JoinLines(cur)>>
    ELSE IF Head(ls) = PageSep
         THEN <<JoinLines(Append(cur, <<>>))>> \o BlocksOfLines(Tail(ls), << <<>> >>)
         ELSE BlocksOfLines(Tail(ls), Append(cur, Head(ls)))

ExpectedBlocks(t) == BlocksOfLines(Lines(t), <<>>)

\* the rest of the first `Source: ` line, or None
ExpectedUrl(block) ==
    LET ls == Lines(block)
        hits == {j \in 1..Len(ls) : IsPrefix(SourceHead, ls[j])}
    IN  IF hits = {} THEN None
        ELSE Drop(ls[MinOf(hits)], Len(SourceHead))

RECURSIVE ExpectedPageRows(_, _)
ExpectedPageRows(blocks, k) ==
    IF k > Len(blocks) THEN <<>>
    ELSE LET cs == ExpectedChunks(blocks[k], 1000, 200)
         IN  [j \in 1..Len(cs) |->
                [PAGE_URL |-> ExpectedUrl(blocks[k]), PAGE_CHUNK |-> cs[j]]]
             \o ExpectedPageRows(blocks, k + 1)

\* C7: the page rows are, block by block in the order of the split on
\* three-hyphen lines, one row per chunk of the block (1000/200), each with
\* the rest of the block's first `Source: ` line as PAGE_URL, or None.
C7_PageRows ==
    ppc = "ret" =>
        page_table_rows = ExpectedPageRows(ExpectedBlocks(full_str), 1)

\* a block of 2500 characters gives three rows, the last of 900 characters;
\* and a text with a separator and two Source lines in one block
C7_Witness ==
    /\ ppc = "ret"
    /\ \/ /\ Len(full_str) = 2500
          /\ Len(page_table_rows) = 3
          /\ Len(page_table_rows[3].PAGE_CHUNK) = 900
          /\ page_table_rows[2].PAGE_CHUNK = SubSeq(full_str, 801, 1800)
       \/ /\ full_str = JoinLines(<<SourceHead \o <<"u">>, SourceHead \o <<"v">>, PageSep>>)
          /\ Len(page_table_rows) = 1
          /\ page_table_rows[1].PAGE_URL = <<"u">>

-----------------------------------------------------------------------------
(* packaging.version, for release-only versions: [v]N(.N)* *)

Digits == <<"0", "1", "2", "3", "4", "5", "6", "7", "8", "9">>
IsDigit(c) == \E d \in 1..10 : Digits[d] = c
DigitVal(c) == (CHOOSE d \in 1..10 : Digits[d] = c) - 1

\* the pieces of s between the occurrences of the character c
RECURSIVE SplitOn(_, _)
SplitOn(s, c) ==
    LET hits == {i \in 1..Len(s) : s[i] = c}
    IN  IF hits = {} THEN <<s>>
        ELSE LET i == MinOf(hits)
             IN  <<SubSeq(s, 1, i - 1)>> \o SplitOn(SubSeq(s, i + 1, Len(s)), c)

RECURSIVE ToInt(_)
ToInt(ds) ==
    IF ds = <<>> THEN 0
    ELSE 10 * ToInt(SubSeq(ds, 1, Len(ds) - 1)) + DigitVal(ds[Len(ds)])

RECURSIVE IntText(_)
IntText(n) ==
    IF n < 0 THEN <<"-">> \o IntText(0 - n)
    ELSE IF n < 10 THEN <<Digits[n + 1]>>
    ELSE IntText(n \div 10) \o <<Digits[(n % 10) + 1]>>

InvalidVersion == [valid |-> FALSE, release |-> <<>>]

\* version.parse(v_str): InvalidVersion stands for the exception
VersionParse(v_str) ==
    LET body == IF v_str # <<>> /\ v_str[1] = "v" THEN Tail(v_str) ELSE v_str
        segs == SplitOn(body, ".")
    IN  IF \A k \in 1..Len(segs) :
                segs[k] # <<>> /\ \A i \in 1..Len(segs[k]) : IsDigit(segs[k][i])
        THEN [valid |-> TRUE, release |-> [k \in 1..Len(segs) |-> ToInt(segs[k])]]
        ELSE InvalidVersion

\* str(Version): the release numbers joined by dots
RECURSIVE ReleaseText(_)
ReleaseText(r) ==
    IF Len(r) = 1 THEN IntText(r[1])
    ELSE IntText(r[1]) \o <<".">> \o ReleaseText(Tail(r))

VersionStr(v) == ReleaseText(v.release)

\* the comparison key: the release without its trailing zeros
RECURSIVE StripZeros(_)
StripZeros(r) ==
    IF r # <<>> /\ r[Len(r)] = 0 THEN StripZeros(SubSeq(r, 1, Len(r) - 1)) ELSE r

RECURSIVE TupleLess(_, _)
TupleLess(a, b) ==
    IF b = <<>> THEN FALSE
    ELSE IF a = <<>> THEN TRUE
    ELSE IF a[1] # b[1] THEN a[1] < b[1]
    ELSE TupleLess(Tail(a), Tail(b))

VersionLess(a, b) == TupleLess(StripZeros(a.release), StripZeros(b.release))

\* max(all_versions): the first of the greatest
RECURSIVE MaxFrom(_, _, _)
MaxFrom(vs, k, best) ==
    IF k > Len(vs) THEN best
    ELSE MaxFrom(vs, k + 1, IF VersionLess(best, vs[k]) THEN vs[k] ELSE best)

MaxVersion(vs) == MaxFrom(vs, 2, vs[1])

-----------------------------------------------------------------------------
(* JSON values, json.dumps, str and json.loads *)

\* a dict is the sequence of its <<key, value>> pairs in insertion order
JStr(s) == [t |-> "str", v |-> s]
JInt(n) == [t |-> "int", v |-> n]
JBool(b) == [t |-> "bool", v |-> b]
JNull == [t |-> "null", v |-> 0]
JList(xs) == [t |-> "list", v |-> xs]
JDict(kvs) == [t |-> "dict", v |-> kvs]

DQ == "\""
SQ == "'"
BS == "\\"

Has(s, c) == \E i \in 1..Len(s) : s[i] = c

\* s with a backslash before every backslash and every character q
RECURSIVE Escape(_, _)
Escape(s, q) ==
    IF ~Has(s, q) /\ ~Has(s, BS) THEN s
    ELSE LET i == MinOf({j \in 1..Len(s) : s[j] = q \/ s[j] = BS})
         IN  SubSeq(s, 1, i - 1) \o <<BS, s[i]>> \o Escape(SubSeq(s, i + 1, Len(s)), q)

JsonString(s) == <<DQ>> \o Escape(s, DQ) \o <<DQ>>

\* repr of a str: single quotes, double quotes when the text has ' and no "
PyReprString(s) ==
    IF Has(s, SQ) /\ ~Has(s, DQ) THEN <<DQ>> \o Escape(s, DQ) \o <<DQ>>
    ELSE <<SQ>> \o Escape(s, SQ) \o <<SQ>>

RECURSIVE JoinWith(_, _)
JoinWith(parts, sep) ==
    IF parts = <<>> THEN <<>>
    ELSE IF Len(parts) = 1 THEN parts[1]
    ELSE parts[1] \o sep \o JoinWith(Tail(parts), sep)

Chars(w) == CASE w = "true" -> <<"t", "r", "u", "e">>
              [] w = "false" -> <<"f", "a", "l", "s", "e">>
              [] w = "null" -> <<"n", "u", "l", "l">>
              [] w = "True" -> <<"T", "r", "u", "e">>
              [] w = "False" -> <<"F", "a", "l", "s", "e">>
              [] w = "None" -> <<"N", "o", "n", "e">>
              [] w = "latest" -> <<"l", "a", "t", "e", "s", "t">>

\* json.dumps(x) with the default separators
RECURSIVE json_dumps(_)
json_dumps(x) ==
    CASE x.t = "str" -> JsonString(x.v)
      [] x.t = "int" -> IntText(x.v)
      [] x.t = "bool" -> IF x.v THEN Chars("true") ELSE Chars("false")
      [] x.t = "null" -> Chars("null")
      [] x.t = "list" ->
            <<"[">> \o JoinWith([k \in 1..Len(x.v) |-> json_dumps(x.v[k])], <<",", " ">>)
                    \o <<"]">>
      [] x.t = "dict" ->
            <<"{">> \o JoinWith([k \in 1..Len(x.v) |->
                                    JsonString(x.v[k][1]) \o <<":", " ">>
                                        \o json_dumps(x.v[k][2])],
                                <<",", " ">>)
                    \o <<"}">>

\* repr(x)
RECURSIVE PyRepr(_)
PyRepr(x) ==
    CASE x.t = "str" -> PyReprString(x.v)
      [] x.t = "int" -> IntText(x.v)
      [] x.t = "bool" -> IF x.v THEN Chars("True") ELSE Chars("False")
      [] x.t = "null" -> Chars("None")
      [] x.t = "list" ->
            <<"[">> \o JoinWith([k \in 1..Len(x.v) |-> PyRepr(x.v[k])], <<",", " ">>)
                    \o <<"]">>
      [] x.t = "dict" ->
            <<"{">> \o JoinWith([k \in 1..Len(x.v) |->
                                    PyReprString(x.v[k][1]) \o <<":", " ">>
                                        \o PyRepr(x.v[k][2])],
                                <<",", " ">>)
                    \o <<"}">>

\* str(x): a str is its own text, anything else its repr
PyStr(x) == IF x.t = "str" THEN x.v ELSE PyRepr(x)

\* d[k] = v on a dict: in place when the key is there, at the end otherwise
DictHas(d, k) == \E i \in 1..Len(d) : d[i][1] = k
DictGet(d, k) == d[CHOOSE i \in 1..Len(d) : d[i][1] = k][2]
DictSet(d, k, v) ==
    IF DictHas(d, k)
    THEN [i \in 1..Len(d) |-> IF d[i][1] = k THEN <<k, v>> ELSE d[i]]
    ELSE Append(d, <<k, v>>)

\* json.loads: a parse from position i gives the value and the position after it
ParseFail == [ok |-> FALSE, val |-> JNull, pos |-> 0]
Parsed(x, i) == [ok |-> TRUE, val |-> x, pos |-> i]

IsWs(c) == c = " " \/ c = NL

RECURSIVE SkipWs(_, _)
SkipWs(t, i) == IF i <= Len(t) /\ IsWs(t[i]) THEN SkipWs(t, i + 1) ELSE i

LooksAt(t, i, w) == i + Len(w) - 1 <= Len(t) /\ SubSeq(t, i, i + Len(w) - 1) = w

\* the text of a string from position i (after the opening quote) to its
\* closing quote, with the escapes \" and \\ undone
RECURSIVE ParseStringFrom(_, _, _)
ParseStringFrom(t, i, acc) ==
    LET marks == {j \in i..Len(t) : t[j] = DQ \/ t[j] = BS}
    IN  IF marks = {} THEN ParseFail
        ELSE LET j == MinOf(marks)
                 got == acc \o SubSeq(t, i, j - 1)
             IN  IF t[j] = DQ THEN Parsed(JStr(got), j + 1)
                 ELSE IF j + 1 <= Len(t) /\ (t[j + 1] = DQ \/ t[j + 1] = BS)
                      THEN ParseStringFrom(t, j + 2, Append(got, t[j + 1]))
                      ELSE ParseFail

\* -?(0|[1-9][0-9]*), not followed by a fraction or an exponent
ParseNumber(t, i) ==
    LET neg == t[i] = "-"
        from == IF neg THEN i + 1 ELSE i
        stops == {j \in from..(Len(t) + 1) : j = Len(t) + 1 \/ ~IsDigit(t[j])}
        stop == MinOf(stops)
        ds == SubSeq(t, from, stop - 1)
    IN  IF ds = <<>> \/ (Len(ds) > 1 /\ ds[1] = "0") THEN ParseFail
        ELSE IF stop <= Len(t) /\ t[stop] \in {".", "e", "E"} THEN ParseFail
        ELSE Parsed(JInt(IF neg THEN 0 - ToInt(ds) ELSE ToInt(ds)), stop)

RECURSIVE ParseValue(_, _)
RECURSIVE ParseElements(_, _, _)
RECURSIVE ParseMembers(_, _, _)

ParseValue(t, i0) ==
    LET i == SkipWs(t, i0)
    IN  IF i > Len(t) THEN ParseFail
        ELSE IF t[i] = DQ THEN ParseStringFrom(t, i + 1, <<>>)
        ELSE IF t[i] = "[" THEN
            (IF i + 1 <= Len(t) /\ SkipWs(t, i + 1) <= Len(t) /\ t[SkipWs(t, i + 1)] = "]"
             THEN Parsed(JList(<<>>), SkipWs(t, i + 1) + 1)
             ELSE ParseElements(t, i + 1, <<>>))
        ELSE IF t[i] = "{" THEN
            (IF i + 1 <= Len(t) /\ SkipWs(t, i + 1) <= Len(t) /\ t[SkipWs(t, i + 1)] = "}"
             THEN Parsed(JDict(<<>>), SkipWs(t, i + 1) + 1)
             ELSE ParseMembers(t, i + 1, <<>>))
        ELSE IF LooksAt(t, i, Chars("true")) THEN Parsed(JBool(TRUE), i + 4)
        ELSE IF LooksAt(t, i, Chars("false")) THEN Parsed(JBool(FALSE), i + 5)
        ELSE IF LooksAt(t, i, Chars("null")) THEN Parsed(JNull, i + 4)
        ELSE IF t[i] = "-" \/ IsDigit(t[i]) THEN ParseNumber(t, i)
        ELSE ParseFail

\* the elements of an array, from the position of an element
ParseElements(t, i, acc) ==
    LET r == ParseValue(t, i)
        j == SkipWs(t, r.pos)
    IN  IF ~r.ok \/ j > Len(t) THEN ParseFail
        ELSE IF t[j] = "]" THEN Parsed(JList(Append(acc, r.val)), j + 1)
        ELSE IF t[j] = "," THEN ParseElements(t, j + 1, Append(acc, r.val))
        ELSE ParseFail

\* the members of an object, from the position of a key
ParseMembers(t, i0, acc) ==
    LET i == SkipWs(t, i0)
        k == IF i <= Len(t) /\ t[i] = DQ THEN ParseStringFrom(t, i + 1, <<>>)
             ELSE ParseFail
        c == SkipWs(t, k.pos)
        r == IF k.ok /\ c <= Len(t) /\ t[c] = ":" THEN ParseValue(t, c + 1)
             ELSE ParseFail
        j == SkipWs(t, r.pos)
    IN  IF ~r.ok \/ j > Len(t) THEN ParseFail
        ELSE IF t[j] = "}" THEN Parsed(JDict(DictSet(acc, k.val.v, r.val)), j + 1)
        ELSE IF t[j] = "," THEN ParseMembers(t, j + 1, DictSet(acc, k.val.v, r.val))
        ELSE ParseFail

\* json.loads(t): ok is FALSE for JSONDecodeError
json_loads(t) ==
    LET r == ParseValue(t, 1)
    IN  IF r.ok /\ SkipWs(t, r.pos) > Len(t) THEN [ok |-> TRUE, val |-> r.val]
        ELSE [ok |-> FALSE, val |-> JNull]

-----------------------------------------------------------------------------
(* get_docstrings_df *)

DocChunkSize == 2000
DocChunkOverlap == 200

Latest == Chars("latest")

\* all_versions: the parsed keys, in key order, without those that raise
RECURSIVE AllVersions(_, _)
AllVersions(d, k) ==
    IF k > Len(d) THEN <<>>
    ELSE LET v == VersionParse(d[k][1])
         IN  (IF v.valid THEN <<v>> ELSE <<>>) \o AllVersions(d, k + 1)

\* the key under which the latest version's entry is looked up
LatestKey(d) == VersionStr(MaxVersion(AllVersions(d, 1)))

\* str() for every value
DocText_StrOnly(obj) == PyStr(obj)

\* the text that is chunked for one command
DocText(obj) == IF obj.t = "dict" THEN json_dumps(obj) ELSE PyStr(obj)

\* the splitter called with its default sizes
RowsOfCommand_DefaultSizes(st_version, command_name, obj) ==
    LET cs == simple_text_splitter(DocText(obj), DefaultChunkSize, DefaultChunkOverlap)
    IN  [j \in 1..Len(cs) |->
            [STREAMLIT_VERSION |-> st_version,
             COMMAND_NAME |-> command_name,
             DOCSTRING_CHUNK |-> cs[j]]]

RowsOfCommand(st_version, command_name, obj) ==
    LET cs == simple_text_splitter(DocText(obj), DocChunkSize, DocChunkOverlap)
    IN  [j \in 1..Len(cs) |->
            [STREAMLIT_VERSION |-> st_version,
             COMMAND_NAME |-> command_name,
             DOCSTRING_CHUNK |-> cs[j]]]

RECURSIVE RowsOfVersion(_, _, _)
RowsOfVersion(st_version, version_docs, k) ==
    IF k > Len(version_docs) THEN <<>>
    ELSE RowsOfCommand(st_version, version_docs[k][1], version_docs[k][2])
         \o RowsOfVersion(st_version, version_docs, k + 1)

RECURSIVE RowsOfDict(_, _)
RowsOfDict(d, k) ==
    IF k > Len(d) THEN <<>>
    ELSE RowsOfVersion(d[k][1], d[k][2], 1) \o RowsOfDict(d, k + 1)

\* the call on the parsed response: the error raised ("none" when it
\* returns), the dict as the call leaves it, and the rows of the frame
get_docstrings_df(d) ==
    IF AllVersions(d, 1) = <<>>
    THEN [err |-> "ValueError", dict |-> d, rows |-> <<>>]
    ELSE IF ~DictHas(d, LatestKey(d))
    THEN [err |-> "KeyError", dict |-> d, rows |-> <<>>]
    ELSE LET d2 == DictSet(d, Latest, DictGet(d, LatestKey(d)))
         IN  [err |-> "none", dict |-> d2, rows |-> RowsOfDict(d2, 1)]

(* the docstring trees *)
MaxKeys == 2

T(w) == CASE w = "1.0.0" -> <<"1", ".", "0", ".", "0">>
          [] w = "2.0.0" -> <<"2", ".", "0", ".", "0">>
          [] w = "1.9.0" -> <<"1", ".", "9", ".", "0">>
          [] w = "1.10.0" -> <<"1", ".", "1", "0", ".", "0">>
          [] w = "v2.0.0" -> <<"v", "2", ".", "0", ".", "0">>
          [] w = "2.0" -> <<"2", ".", "0">>
          [] w = "bad-tag" -> <<"b", "a", "d", "-", "t", "a", "g">>
          [] w = "docs" -> <<"d", "o", "c", "s">>
          [] w = "more docs" -> <<"m", "o", "r", "e", " ", "d", "o", "c", "s">>

VersionKeys ==
    {T("1.0.0"), T("2.0.0"), T("1.9.0"), T("1.10.0"), T("v2.0.0"), T("2.0"),
     T("bad-tag"), Latest}

\* the commands of one version
DocsA == << <<"write", JStr(T("docs"))>> >>
DocsB == << <<"write", JStr(T("more docs"))>>,
            <<"json", JDict(<< <<<<"a">>, JList(<<JStr(<<"p">>), JInt(1)>>)>>,
                               <<<<"b">>, JNull>> >>)>> >>
DocsC == << <<"tabs", JList(<<JStr(<<"a">>), JStr(<<"b">>)>>)>>,
            <<"n", JInt(7)>>,
            <<"empty", JStr(<<>>)>> >>

VersionDocs == {DocsA, DocsB, DocsC}

\* doc values that take more than one chunk, and the other kinds of value
DocsLong == << <<"text", JStr(Filler(4100))>>,
               <<"obj", JDict(<< <<<<"k">>, JStr(Filler(2100))>>,
                                 <<<<"q">>, JStr(<<"a", DQ, "b", BS>>)>> >>)>> >>
DocsKinds == << <<"flag", JBool(TRUE)>>,
                <<"none", JNull>>,
                <<"ints", JList(<<JInt(1), JInt(2)>>)>>,
                <<"objs", JList(<<JDict(<< <<<<"a">>, JInt(1)>> >>)>>)>>,
                <<"nest", JDict(<< <<<<"l">>, JList(<<JBool(FALSE), JDict(<<>>)>>)>> >>)>>,
                <<"void", JDict(<<>>)>> >>

ExtraTrees ==
    { << <<T("1.0.0"), DocsLong>>, <<T("2.0.0"), DocsC>> >>,
      << <<T("1.0.0"), DocsKinds>>, <<T("bad-tag"), DocsLong>> >> }

Injective(f) == \A i, j \in DOMAIN f : f[i] = f[j] => i = j

Trees ==
    UNION {{[i \in 1..n |-> <<ks[i], ds[i]>>] :
              ks \in {f \in [1..n -> VersionKeys] : Injective(f)},
              ds \in [1..n -> VersionDocs]} : n \in 1..MaxKeys}
        \cup ExtraTrees

DocsStart ==
    /\ response_json \in Trees
    /\ docstrings_dict = response_json
    /\ docstrings_table_rows = <<>>
    /\ derr = "none"
    /\ dpc = "call"

GetDocstrings ==
    /\ dpc = "call"
    /\ LET r == get_docstrings_df(docstrings_dict)
       IN  /\ derr' = r.err
           /\ docstrings_dict' = r.dict
           /\ docstrings_table_rows' = r.rows
    /\ dpc' = "ret"
    /\ UNCHANGED <<response_json, splitVars, pageVars, mainVars>>

DocsInit == DocsStart /\ SplitIdle /\ PagesIdle /\ MainIdle
DocsSpec == DocsInit /\ [][GetDocstrings]_vars

-----------------------------------------------------------------------------
(* C2 *)

KeyVersion(k) == VersionParse(response_json[k][1])

SomeKeyParses == \E k \in 1..Len(response_json) : KeyVersion(k).valid

\* key k of the input parses, and no key parses to a greater version
IsGreatestKey(k) ==
    /\ KeyVersion(k).valid
    /\ \A j \in 1..Len(response_json) :
          KeyVersion(j).valid => ~VersionLess(KeyVersion(k), KeyVersion(j))

\* the <<command, chunk>> pairs of the rows of one version, in row order
RowsFor(st_version) ==
    LET Mine(r) == r.STREAMLIT_VERSION = st_version
        rs == SelectSeq(docstrings_table_rows, Mine)
    IN  [j \in 1..Len(rs) |-> <<rs[j].COMMAND_NAME, rs[j].DOCSTRING_CHUNK>>]

\* C2: whenever some top-level key parses as a version, the call returns and
\* "latest" is the entry of the input key with the greatest parsed version,
\* with the same rows as that key.
C2_LatestAliasesGreatest ==
    (dpc = "ret" /\ SomeKeyParses) =>
        /\ derr = "none"
        /\ \E k \in 1..Len(response_json) :
              /\ IsGreatestKey(k)
              /\ DictHas(docstrings_dict, Latest)
              /\ DictGet(docstrings_dict, Latest) = response_json[k][2]
              /\ RowsFor(Latest) = RowsFor(response_json[k][1])

-----------------------------------------------------------------------------
(* C8 *)

\* the keys of the dict that is iterated: the input's, and "latest" at the
\* end unless the input has it
ExpectedKeys ==
    LET ks == [k \in 1..Len(response_json) |-> response_json[k][1]]
    IN  IF \E k \in 1..Len(ks) : ks[k] = Latest THEN ks ELSE Append(ks, Latest)

ExpectedDocsOf(key) ==
    IF key = Latest THEN DictGet(docstrings_dict, Latest)
    ELSE DictGet(response_json, key)

RECURSIVE ExpectedCommandRows(_, _, _)
ExpectedCommandRows(key, version_docs, k) ==
    IF k > Len(version_docs) THEN <<>>
    ELSE LET cs == ExpectedChunks(DocText(version_docs[k][2]), 2000, 200)
         IN  [j \in 1..Len(cs) |->
                [STREAMLIT_VERSION |-> key,
                 COMMAND_NAME |-> version_docs[k][1],
                 DOCSTRING_CHUNK |-> cs[j]]]
             \o ExpectedCommandRows(key, version_docs, k + 1)

RECURSIVE ExpectedDocRows(_, _)
ExpectedDocRows(keys, k) ==
    IF k > Len(keys) THEN <<>>
    ELSE ExpectedCommandRows(keys[k], ExpectedDocsOf(keys[k]), 1)
         \o ExpectedDocRows(keys, k + 1)

\* C8: the docstring rows are, key by key in dictionary order (unparsed keys
\* and "latest" included), command by command, one row per chunk (2000/200)
\* of the command's text; a command with a non-empty text has a row.
C8_DocstringRows ==
    (dpc = "ret" /\ derr = "none") =>
        /\ docstrings_table_rows = ExpectedDocRows(ExpectedKeys, 1)
        /\ \A k \in 1..Len(docstrings_dict) :
              \A c \in 1..Len(docstrings_dict[k][2]) :
                 DocText(docstrings_dict[k][2][c][2]) # <<>> =>
                    \E j \in 1..Len(docstrings_table_rows) :
                       /\ docstrings_table_rows[j].STREAMLIT_VERSION = docstrings_dict[k][1]
                       /\ docstrings_table_rows[j].COMMAND_NAME = docstrings_dict[k][2][c][1]

\* an unparsed key with a text of three chunks, after a parsed key
C8_Witness ==
    /\ dpc = "ret" /\ derr = "none"
    /\ Len(response_json) = 2
    /\ ~KeyVersion(2).valid
    /\ \E j \in 1..Len(docstrings_table_rows) :
          /\ docstrings_table_rows[j].STREAMLIT_VERSION = response_json[2][1]
          /\ docstrings_table_rows[j].COMMAND_NAME = "text"
          /\ Len(docstrings_table_rows[j].DOCSTRING_CHUNK) = 500
    /\ docstrings_table_rows[Len(docstrings_table_rows)].STREAMLIT_VERSION = Latest

-----------------------------------------------------------------------------
(* C9 *)

\* the text that was chunked for a command of a version, put together again
\* from the chunks of its rows
ChunkedText(st_version, command_name) ==
    LET Mine(r) == r.STREAMLIT_VERSION = st_version /\ r.COMMAND_NAME = command_name
        rs == SelectSeq(docstrings_table_rows, Mine)
    IN  JoinDedup([j \in 1..Len(rs) |-> rs[j].DOCSTRING_CHUNK], DocChunkOverlap, 1)

\* every command's value, with the text chunked for it, satisfies P
ForAllDocs(P(_, _)) ==
    \A k \in 1..Len(docstrings_dict) :
       \A c \in 1..Len(docstrings_dict[k][2]) :
          P(docstrings_dict[k][2][c][2],
            ChunkedText(docstrings_dict[k][1], docstrings_dict[k][2][c][1]))

RoundTrips(obj, txt) == json_loads(txt) = [ok |-> TRUE, val |-> obj]

\* C9 as stated: objects and arrays are chunked as JSON text that parses back
\* to the value; only the other values are chunked as their str().
C9_StructuredAsJson ==
    (dpc = "ret" /\ derr = "none") =>
        LET P(obj, txt) ==
                IF obj.t \in {"dict", "list"} THEN RoundTrips(obj, txt)
                ELSE txt = PyStr(obj)
        IN  ForAllDocs(P)

\* C9 as amended: objects are chunked as JSON text that parses back to the
\* value; every other value, arrays included, is chunked as its str().
C9_ObjectsAsJson ==
    (dpc = "ret" /\ derr = "none") =>
        LET P(obj, txt) ==
                IF obj.t = "dict" THEN RoundTrips(obj, txt)
                ELSE txt = PyStr(obj)
        IN  ForAllDocs(P)

\* an object whose JSON text takes two chunks, next to an array of strings
\* whose str() is no JSON
C9_Witness ==
    /\ dpc = "ret" /\ derr = "none"
    /\ \E k \in 1..Len(docstrings_dict) :
          \E c \in 1..Len(docstrings_dict[k][2]) :
             /\ docstrings_dict[k][2][c][2].t = "dict"
             /\ Len(ChunkedText(docstrings_dict[k][1], docstrings_dict[k][2][c][1]))
                    > DocChunkSize
    /\ \E k \in 1..Len(docstrings_dict) :
          \E c \in 1..Len(docstrings_dict[k][2]) :
             /\ docstrings_dict[k][2][c][2].t = "list"
             /\ ~json_loads(ChunkedText(docstrings_dict[k][1],
                                        docstrings_dict[k][2][c][1])).ok

-----------------------------------------------------------------------------
(* main *)

MaxRuns == 2

\* the statements of main that can raise, in program order
Statements ==
    <<"get_pages", "get_docstrings", "connect",
      "create_db", "create_schema", "create_pages_table", "create_docstrings_table",
      "track_pages", "track_docstrings",
      "truncate_pages", "truncate_docstrings",
      "load_pages", "load_docstrings",
      "count_pages", "count_docstrings", "close">>

\* the statement that follows `stage` in the sequence sts, "done" after the last
AfterIn(sts, stage) ==
    LET i == CHOOSE j \in 1..Len(sts) : sts[j] = stage
    IN  IF i = Len(sts) THEN "done" ELSE sts[i + 1]

\* the session opened before the docstrings are fetched
After_ConnectEarly(stage) ==
    AfterIn(<<"get_pages", "connect", "get_docstrings">> \o SubSeq(Statements, 4, Len(Statements)),
            stage)

\* the page rows loaded before the tables are truncated
After_LoadBeforeTruncate(stage) ==
    AfterIn(SubSeq(Statements, 1, 9)
                \o <<"load_pages", "truncate_pages", "truncate_docstrings">>
                \o SubSeq(Statements, 13, Len(Statements)),
            stage)

\* control passes from a statement that returned to the next one
After(stage) == AfterIn(Statements, stage)

\* the statements that act on the session or the destination
StorageStages == {Statements[i] : i \in 3..Len(Statements)}

(* the storage collaborator *)
CreateDatabase(d) == [d EXCEPT !.db = TRUE]
CreateSchema(d) == [d EXCEPT !.schema = TRUE]
\* CREATE TABLE IF NOT EXISTS
CreateTable(d, name) ==
    IF d[name].exists THEN d
    ELSE [d EXCEPT ![name] = [exists |-> TRUE, tracking |-> FALSE, rows |-> <<>>]]
\* ALTER TABLE ... SET CHANGE_TRACKING = TRUE
SetChangeTracking(d, name) == [d EXCEPT ![name].tracking = TRUE]
\* a truncate that leaves the rows
Truncate_KeepsRows(d, name) == d

\* TRUNCATE TABLE
Truncate(d, name) == [d EXCEPT ![name].rows = <<>>]
\* write_pandas(df, ..., auto_create_table=False, overwrite=False)
WritePandas(d, name, df) == [d EXCEPT ![name].rows = @ \o df]
\* SELECT COUNT(*)
CountRows(d, name) == Len(d[name].rows)

(* the responses of the two fetches *)
PageRow(url, chunk) == [PAGE_URL |-> url, PAGE_CHUNK |-> chunk]

RunCorpora ==
    { JoinLines(<<SourceHead \o <<"u">>, <<"x">>>>),
      JoinLines(<<<<"x">>, PageSep, SourceHead \o <<"v">>>>) }

RunTrees ==
    { << <<T("1.0.0"), DocsA>> >>,
      << <<T("1.0.0"), DocsA>>, <<T("2.0.0"), DocsB>> >>,
      << <<T("bad-tag"), DocsA>> >>,
      << <<T("v2.0.0"), DocsA>> >> }

\* ok: raise_for_status passes; json_ok: json.loads takes the body
PageResponses ==
    {[ok |-> TRUE, body |-> c] : c \in RunCorpora} \cup {[ok |-> FALSE, body |-> <<>>]}

DocResponses ==
    {[ok |-> TRUE, json_ok |-> TRUE, body |-> t] : t \in RunTrees}
        \cup {[ok |-> TRUE, json_ok |-> FALSE, body |-> <<>>],
              [ok |-> FALSE, json_ok |-> FALSE, body |-> <<>>]}

\* a destination left by earlier use
StaleDest ==
    [db |-> TRUE, schema |-> TRUE,
     pages |-> [exists |-> TRUE, tracking |-> TRUE,
                rows |-> <<PageRow(None, <<"o", "l", "d">>)>>],
     docstrings |-> [exists |-> TRUE, tracking |-> FALSE,
                     rows |-> <<[STREAMLIT_VERSION |-> T("1.0.0"),
                                 COMMAND_NAME |-> "old",
                                 DOCSTRING_CHUNK |-> <<"o", "l", "d">>]>>]]

otherVars == <<splitVars, pageVars, docVars>>

MainStart ==
    /\ pc = "get_pages"
    /\ docs_pages_df = <<>>
    /\ docstrings_df = <<>>
    /\ session = "none"
    /\ dest \in {FreshDest, StaleDest}
    /\ counts = <<>>
    /\ oplog = <<>>
    /\ failed_at = "none"
    /\ error = "none"
    /\ before = dest
    /\ run = 1

\* an exception that puts the destination back as the run found it
Raise_RollsBack(stage, exc) ==
    /\ pc' = "failed"
    /\ failed_at' = stage
    /\ error' = exc
    /\ dest' = before
    /\ UNCHANGED <<docs_pages_df, docstrings_df, session, counts, oplog,
                   before, run, otherVars>>

\* an exception leaves main: nothing catches it, nothing is undone
Raise(stage, exc) ==
    /\ pc' = "failed"
    /\ failed_at' = stage
    /\ error' = exc
    /\ UNCHANGED <<docs_pages_df, docstrings_df, session, dest, counts, oplog,
                   before, run, otherVars>>

\* docs_pages_df = get_docs_pages_df()
GetPages ==
    /\ pc = "get_pages"
    /\ \E resp \in PageResponses :
          IF ~resp.ok THEN Raise("get_pages", "HTTPError")
          ELSE /\ docs_pages_df' = get_docs_pages_df(resp.body)
               /\ pc' = After("get_pages")
               /\ UNCHANGED <<docstrings_df, session, dest, counts, oplog,
                              failed_at, error, before, run, otherVars>>

\* docstrings_df = get_docstrings_df()
GetDocs ==
    /\ pc = "get_docstrings"
    /\ \E resp \in DocResponses :
          IF ~resp.ok THEN Raise("get_docstrings", "HTTPError")
          ELSE IF ~resp.json_ok THEN Raise("get_docstrings", "JSONDecodeError")
          ELSE LET r == get_docstrings_df(resp.body)
               IN  IF r.err # "none" THEN Raise("get_docstrings", r.err)
                   ELSE /\ docstrings_df' = r.rows
                        /\ pc' = After("get_docstrings")
                        /\ UNCHANGED <<docs_pages_df, session, dest, counts, oplog,
                                       failed_at, error, before, run, otherVars>>

\* a storage statement returns: the session, the destination and the counts
\* read so far become s, d and c
Returned(stage, s, d, c) ==
    /\ pc = stage
    /\ session' = s
    /\ dest' = d
    /\ counts' = c
    /\ oplog' = Append(oplog, stage)
    /\ pc' = After(stage)
    /\ UNCHANGED <<docs_pages_df, docstrings_df, failed_at, error, before, run,
                   otherVars>>

Connect == Returned("connect", "open", dest, counts)
CreateDb == Returned("create_db", session, CreateDatabase(dest), counts)
CreateSch == Returned("create_schema", session, CreateSchema(dest), counts)
CreatePagesTable ==
    Returned("create_pages_table", session, CreateTable(dest, "pages"), counts)
CreateDocstringsTable ==
    Returned("create_docstrings_table", session, CreateTable(dest, "docstrings"), counts)
TrackPages ==
    Returned("track_pages", session, SetChangeTracking(dest, "pages"), counts)
TrackDocstrings ==
    Returned("track_docstrings", session, SetChangeTracking(dest, "docstrings"), counts)
TruncatePages ==
    Returned("truncate_pages", session, Truncate(dest, "pages"), counts)
TruncateDocstrings ==
    Returned("truncate_docstrings", session, Truncate(dest, "docstrings"), counts)
LoadPages ==
    Returned("load_pages", session, WritePandas(dest, "pages", docs_pages_df), counts)
LoadDocstrings ==
    Returned("load_docstrings", session,
             WritePandas(dest, "docstrings", docstrings_df), counts)
CountPages ==
    Returned("count_pages", session, dest, Append(counts, CountRows(dest, "pages")))
CountDocstrings ==
    Returned("count_docstrings", session, dest,
             Append(counts, CountRows(dest, "docstrings")))
Close == Returned("close", "closed", dest, counts)

\* any call on the session can raise instead of returning
StorageFails ==
    /\ pc \in StorageStages
    /\ Raise(pc, "StorageError")

\* the script is run again, against the destination as the last run left it
RunAgain ==
    /\ pc \in {"done", "failed"}
    /\ run < MaxRuns
    /\ pc' = "get_pages"
    /\ docs_pages_df' = <<>>
    /\ docstrings_df' = <<>>
    /\ session' = "none"
    /\ counts' = <<>>
    /\ oplog' = <<>>
    /\ failed_at' = "none"
    /\ error' = "none"
    /\ before' = dest
    /\ run' = run + 1
    /\ UNCHANGED <<dest, otherVars>>

Init == MainStart /\ SplitIdle /\ PagesIdle /\ DocsIdle

Next ==
    \/ GetPages \/ GetDocs \/ Connect
    \/ CreateDb \/ CreateSch \/ CreatePagesTable \/ CreateDocstringsTable
    \/ TrackPages \/ TrackDocstrings
    \/ TruncatePages \/ TruncateDocstrings
    \/ LoadPages \/ LoadDocstrings
    \/ CountPages \/ CountDocstrings \/ Close
    \/ StorageFails \/ RunAgain

Spec == Init /\ [][Next]_vars

-----------------------------------------------------------------------------
(* C3 *)

Position(stage) == CHOOSE j \in 1..Len(Statements) : Statements[j] = stage
Completed(stage) == \E j \in 1..Len(oplog) : oplog[j] = stage

\* the rows a table holds after the statements of this run that completed
RowsAfter(name, truncate, load, df) ==
    IF Completed(load) THEN df
    ELSE IF Completed(truncate) THEN <<>>
    ELSE before[name].rows

DestAsCompleted ==
    /\ dest.pages.rows = RowsAfter("pages", "truncate_pages", "load_pages", docs_pages_df)
    /\ dest.docstrings.rows =
          RowsAfter("docstrings", "truncate_docstrings", "load_docstrings", docstrings_df)

\* C3: a statement that raises ends the run with nothing undone: the storage
\* statements completed are those before it, the tables hold what these left,
\* and nothing runs afterwards; when the docstring load raises, the pages
\* table holds this run's page rows, the docstrings table is empty and no
\* count has been read.
C3_FailureAborts ==
    /\ [](pc = "failed" =>
            /\ oplog = SubSeq(Statements, 3, Position(failed_at) - 1)
            /\ DestAsCompleted
            /\ (failed_at = "load_docstrings" =>
                  /\ dest.pages.rows = docs_pages_df
                  /\ dest.docstrings.rows = <<>>
                  /\ counts = <<>>))
    /\ [][(pc = "failed" /\ run' = run) =>
              UNCHANGED <<pc, dest, oplog, counts, session>>]_vars

\* the docstring load raises after a page load over a table that held old rows
C3_Witness ==
    /\ pc = "failed"
    /\ failed_at = "load_docstrings"
    /\ before.pages.rows # <<>>
    /\ before.docstrings.rows # <<>>
    /\ docs_pages_df # <<>>
    /\ docstrings_df # <<>>

-----------------------------------------------------------------------------
(* C4 *)

Extraction == {"get_pages", "get_docstrings"}

\* C4: while either row set is still to be built the session is not open and
\* no storage statement has run; a run that fails in a fetch, in the JSON
\* parse or in the latest-resolution leaves both tables as it found them.
C4_ExtractBeforeStorage ==
    /\ (pc \in Extraction \/ failed_at \in Extraction) =>
          /\ oplog = <<>>
          /\ session = "none"
          /\ dest = before
    /\ (pc = "failed" /\ error \in {"HTTPError", "JSONDecodeError", "ValueError", "KeyError"})
          => failed_at \in Extraction

\* no key parses as a version, in a run against tables that hold rows
C4_Witness ==
    /\ pc = "failed"
    /\ failed_at = "get_docstrings"
    /\ error = "ValueError"
    /\ docs_pages_df # <<>>
    /\ dest.pages.rows # <<>>
    /\ dest.docstrings.rows # <<>>

-----------------------------------------------------------------------------
(* C5 *)

\* C5: when a run completes, each table holds exactly the rows this run
\* built for it, and the counts read back are the numbers of those rows.
C5_RunReplacesAll ==
    pc = "done" =>
        /\ dest.pages.rows = docs_pages_df
        /\ dest.docstrings.rows = docstrings_df
        /\ counts = <<Len(docs_pages_df), Len(docstrings_df)>>

\* a run completes after a run that stopped between the two loads, with
\* other page rows than that run's
C5_Witness ==
    /\ pc = "done"
    /\ run > 1
    /\ before.pages.rows # <<>>
    /\ before.pages.rows # docs_pages_df
    /\ before.docstrings.rows = <<>>
    /\ docstrings_df # <<>>

-----------------------------------------------------------------------------
(* C6 *)

ClaimedOrder ==
    <<"create_db", "create_schema",
      "create_pages_table", "create_docstrings_table",
      "track_pages", "track_docstrings",
      "truncate_pages", "truncate_docstrings",
      "load_pages", "load_docstrings",
      "count_pages", "count_docstrings">>

InClaimedOrder(stage) == \E j \in 1..Len(ClaimedOrder) : ClaimedOrder[j] = stage

\* the storage operations completed in this run, without connect and close
StorageOps == SelectSeq(oplog, InClaimedOrder)

IsLoad(stage) == stage \in {"load_pages", "load_docstrings"}
IsTruncate(stage) == stage \in {"truncate_pages", "truncate_docstrings"}

\* C6: the storage operations of a run are completed in the order ensure
\* database and schema, ensure tables, change tracking, truncate, load pages,
\* load docstrings, counts; the one being started is the next of that order;
\* no truncate comes after a load.
C6_StorageOrder ==
    /\ IsPrefix(StorageOps, ClaimedOrder)
    /\ InClaimedOrder(pc) => pc = ClaimedOrder[Len(StorageOps) + 1]
    /\ pc \in {"close", "done"} => StorageOps = ClaimedOrder
    /\ \A i, j \in 1..Len(oplog) :
          (i < j /\ IsLoad(oplog[i])) => ~IsTruncate(oplog[j])

C6_Witness ==
    /\ pc = "done"
    /\ StorageOps = ClaimedOrder
    /\ run > 1

====
